---- MODULE Spec2Model ----
(***************************************************************************)
(* Model of the MERN task manager back end.                                *)
(*                                                                         *)
(*   - the auth controller (backend/controllers/authController.js):       *)
(*     registerUser, loginUser, getUserProfile, updateUserProfile, over a  *)
(*     user store; once with each handler as one atomic step (Spec) and    *)
(*     once with each handler split at its awaited store calls (SpecPar);  *)
(*   - the task lifecycle engine (progress, status, checklist), whose     *)
(*     controller is not among the sources and is modelled from the       *)
(*     specification's section 4.2 (SpecTask).                             *)
(*                                                                         *)
(* Strings the code inspects character by character (names, emails,       *)
(* passwords) are sequences of one-character strings.                      *)
(***************************************************************************)
EXTENDS Integers, Sequences, FiniteSets, TLC

VARIABLES
    users,              \* the users collection: users[i] is the document with _id i
    jwtSecretSet,       \* process.env.JWT_SECRET is configured
    adminInviteSecret,  \* process.env.ADMIN_INVITE_TOKEN, or Undefined
    last,               \* the last request served and its response
    inflight,           \* SpecPar: the requests suspended at an await
    tasks               \* SpecTask: the tasks collection

vars == <<users, jwtSecretSet, adminInviteSecret, last, inflight, tasks>>

----------------------------------------------------------------------------
(* Bounds of the model *)

\* the users collection holds at most this many documents
MaxUsers == 2

\* SpecPar: at most this many requests are suspended at the same time
MaxInflight == 2

\* SpecTask: at most this many tasks, each with at most this many checklist items
MaxTasks == 1
MaxItems == 3

----------------------------------------------------------------------------
(* JavaScript values *)

\* a request-body field that is not present
Undefined == <<"undefined">>

\* JavaScript truthiness of a string-or-undefined value
Truthy(x) == x # Undefined /\ x # <<>>

\* x || ""
OrEmpty(x) == IF Truthy(x) THEN x ELSE <<>>

IsSpace(c) == c = " "

RECURSIVE trimStart(_)
trimStart(s) ==
    IF s = <<>> THEN <<>>
    ELSE IF IsSpace(Head(s)) THEN trimStart(Tail(s)) ELSE s

RECURSIVE trimEnd(_)
trimEnd(s) ==
    IF s = <<>> THEN <<>>
    ELSE IF IsSpace(s[Len(s)]) THEN trimEnd(SubSeq(s, 1, Len(s) - 1)) ELSE s

\* String.prototype.trim
trim(s) == trimEnd(trimStart(s))

toLowerCaseChar(c) ==
    CASE c = "A" -> "a"
      [] c = "B" -> "b"
      [] c = "C" -> "c"
      [] OTHER -> c

\* String.prototype.toLowerCase
toLowerCase(s) ==
    IF s = <<>> THEN <<>> ELSE [i \in 1..Len(s) |-> toLowerCaseChar(s[i])]

\* a mutant of normalizeEmail that forgets to lower-case
normalizeEmail_trimOnly(e) == trim(IF e = Undefined THEN <<>> ELSE e)

\* const normalizeEmail = (e = "") => e.trim().toLowerCase();
normalizeEmail(e) == toLowerCase(trim(IF e = Undefined THEN <<>> ELSE e))

\* /^\S+@\S+\.\S+$/.test(s): no white space, and an "@" after at least one
\* character, followed after at least one character by a "." that is not last
EmailRegexTest(s) ==
    /\ \A i \in 1..Len(s) : ~IsSpace(s[i])
    /\ \E i, j \in 1..Len(s) :
          /\ s[i] = "@" /\ s[j] = "."
          /\ 2 <= i /\ i + 2 <= j /\ j + 1 <= Len(s)

\* bcrypt.hash(password, salt): the salt does not change what compare accepts
bcryptHash(password) == <<"$2a$10$">> \o password

\* bcrypt.compare(password, hash)
bcryptCompare(password, hash) == hash = bcryptHash(password)

MinPasswordLength == 6

----------------------------------------------------------------------------
(* The requests the model sends *)

NAME_BLANK == <<" ">>
NAME_N     == <<" ", "n">>
NAME_M     == <<"m", " ">>

EMAIL_A       == <<"a", "@", "b", ".", "c">>
EMAIL_A_UPPER == <<" ", "A", "@", "b", ".", "c", " ">>
EMAIL_C       == <<"c", "@", "d", ".", "e">>
EMAIL_NO_AT   == <<"a", "b">>
EMAIL_BLANK   == <<" ">>

PW_SHORT == <<"p", "p", "p">>
PW_P     == <<"p", "p", "p", "p", "p", "p">>
PW_Q     == <<"q", "q", "q", "q", "q", "q">>

TOKEN_SECRET == <<"s">>
TOKEN_WRONG  == <<"w">>

ROLE_ADMIN == <<"admin">>

NoBody ==
    [name |-> Undefined, email |-> Undefined, password |-> Undefined,
     profileImageUrl |-> Undefined, adminInviteToken |-> Undefined,
     role |-> Undefined]

RegisterBodies ==
    [name : {NAME_BLANK, NAME_N},
     email : {Undefined, EMAIL_A, EMAIL_A_UPPER, EMAIL_C, EMAIL_NO_AT},
     password : {PW_SHORT, PW_P},
     profileImageUrl : {Undefined},
     adminInviteToken : {Undefined, <<>>, TOKEN_SECRET, TOKEN_WRONG},
     role : {Undefined}]

LoginBodies ==
    [name : {Undefined},
     email : {Undefined, EMAIL_BLANK, EMAIL_A_UPPER, EMAIL_C, EMAIL_NO_AT},
     password : {Undefined, PW_SHORT, PW_P},
     profileImageUrl : {Undefined}, adminInviteToken : {Undefined},
     role : {Undefined}]

\* a body either carries both a role and an invite token, or neither
UpdateBodies ==
    {b \in [name : {Undefined, NAME_M, NAME_N},
            email : {Undefined, EMAIL_A_UPPER, EMAIL_C, EMAIL_NO_AT},
            password : {Undefined, <<>>, PW_SHORT, PW_Q},
            profileImageUrl : {Undefined, <<>>},
            adminInviteToken : {Undefined, TOKEN_SECRET},
            role : {Undefined, ROLE_ADMIN}] :
        (b.role = Undefined) <=> (b.adminInviteToken = Undefined)}

\* req.user.id as the auth middleware sets it: any id, stored or not
UserIds == 1..MaxUsers

----------------------------------------------------------------------------
(* Responses *)

Resp(status, code, message) ==
    [status |-> status, code |-> code, message |-> message]

\* a handler's result: the users collection it leaves and what it answers
Result(us, resp) == [users |-> us, resp |-> resp]

MissingFields ==
    Resp(400, "MISSING_FIELDS", "Name, email and password are required")
BadEmail     == Resp(400, "BAD_EMAIL", "Email format is invalid")
WeakPassword ==
    Resp(400, "WEAK_PASSWORD", "Password must be at least 6 characters")
BadInvite    == Resp(403, "BAD_INVITE", "Invalid admin invite token")
DupEmail     == Resp(409, "DUP_EMAIL", "Email already registered")
NoJwtSecret  ==
    Resp(500, "NO_JWT_SECRET", "Server misconfigured: JWT_SECRET not set")
ServerError  == Resp(500, "SERVER", "Server error")
LoginMissingFields ==
    Resp(400, "MISSING_FIELDS", "Email and password are required")
NotFound     == Resp(404, "NOT_FOUND", "User not found")
Created      == Resp(201, "", "")
Ok           == Resp(200, "", "")
\* no response yet: the handler goes on
Continue     == Resp(0, "", "")

----------------------------------------------------------------------------
(* The users collection (backend/models/User.js, not among the sources) *)

\* User.exists({ email })
UserExists(us, email) == \E i \in DOMAIN us : us[i].email = email

\* User.exists({ _id: { $ne: id }, email })
UserExistsOther(us, id, email) ==
    \E i \in DOMAIN us : i # id /\ us[i].email = email

\* the unique index on email: a write of `email` to document `id` is refused
\* (E11000) when another document holds that email
UniqueIndexRejects(us, id, email) == UserExistsOther(us, id, email)

\* generateToken(userId) throws when JWT_SECRET is not set
generateTokenThrows == ~jwtSecretSet

----------------------------------------------------------------------------
(* registerUser *)

\* name = (name || "").trim(); email = normalizeEmail(email); password = password || ""
RegFields(body) ==
    [name     |-> trim(OrEmpty(body.name)),
     email    |-> normalizeEmail(body.email),
     password |-> OrEmpty(body.password)]

\* the basic validation; Continue when the fields pass
RegValidate(f) ==
    IF f.name = <<>> \/ f.email = <<>> \/ f.password = <<>> THEN MissingFields
    ELSE IF ~EmailRegexTest(f.email) THEN BadEmail
    ELSE IF Len(f.password) < MinPasswordLength THEN WeakPassword
    ELSE Continue

\* a mutant of the invite check: a wrong token is let through
InviteMismatch_never(token) == FALSE

\* adminInviteToken && adminInviteToken !== process.env.ADMIN_INVITE_TOKEN
InviteMismatch(token) == Truthy(token) /\ token # adminInviteSecret

\* role selection
RoleFor(token) ==
    IF Truthy(token) /\ token = adminInviteSecret THEN "admin" ELSE "member"

\* registerUser up to its answer to User.exists: the response, or Continue
RegisterCheck(body, us) ==
    LET f == RegFields(body)
        v == RegValidate(f)
    IN  IF v # Continue THEN v
        ELSE IF InviteMismatch(body.adminInviteToken) THEN BadInvite
        ELSE IF UserExists(us, f.email) THEN DupEmail
        ELSE Continue

\* registerUser from User.create on, with its catch block
RegisterCreate(body, us) ==
    LET f == RegFields(body)
        doc == [name            |-> f.name,
                email           |-> f.email,
                password        |-> bcryptHash(f.password),
                profileImageUrl |-> OrEmpty(body.profileImageUrl),
                role            |-> RoleFor(body.adminInviteToken)]
    IN  IF UniqueIndexRejects(us, Len(us) + 1, doc.email)
        THEN Result(us, DupEmail)
        ELSE IF generateTokenThrows
        THEN Result(Append(us, doc), NoJwtSecret)
        ELSE Result(Append(us, doc), Created)

registerUser(body, us) ==
    LET c == RegisterCheck(body, us)
    IN  IF c # Continue THEN Result(us, c) ELSE RegisterCreate(body, us)

----------------------------------------------------------------------------
(* loginUser *)

\* User.findOne({ email }): the id of a document with that email, 0 if none
FindOne(us, email) ==
    IF UserExists(us, email)
    THEN CHOOSE i \in DOMAIN us : us[i].email = email
    ELSE 0

BadCredentials == Resp(401, "BAD_CREDENTIALS", "Invalid email or password")

\* a mutant of loginUser's answer to an unknown email
UnknownEmailResponse_distinct == Resp(404, "NOT_FOUND", "User not found")

\* what loginUser answers when no user has the email
UnknownEmailResponse == BadCredentials

\* what loginUser answers when the password does not match
WrongPasswordResponse == BadCredentials

loginUser(body, us) ==
    LET email == normalizeEmail(body.email)
        password == OrEmpty(body.password)
        id == FindOne(us, email)
    IN  IF email = <<>> \/ password = <<>> THEN Result(us, LoginMissingFields)
        ELSE IF id = 0 THEN Result(us, UnknownEmailResponse)
        ELSE IF ~bcryptCompare(password, us[id].password)
        THEN Result(us, WrongPasswordResponse)
        ELSE IF generateTokenThrows THEN Result(us, NoJwtSecret)
        ELSE Result(us, Ok)

----------------------------------------------------------------------------
(* getUserProfile *)

getUserProfile(id, us) ==
    IF id \notin DOMAIN us THEN Result(us, NotFound) ELSE Result(us, Ok)

----------------------------------------------------------------------------
(* updateUserProfile *)

\* a mutant of the in-memory update: the email is stored as it was sent
UpdateAssign_rawEmail(user, body) ==
    [name |-> IF Truthy(body.name) THEN trim(body.name) ELSE user.name,
     email |-> IF Truthy(body.email) THEN body.email ELSE user.email,
     profileImageUrl |-> IF body.profileImageUrl # Undefined
                         THEN body.profileImageUrl
                         ELSE user.profileImageUrl,
     password |-> IF Truthy(body.password)
                  THEN bcryptHash(body.password) ELSE user.password,
     role |-> user.role]

\* a mutant of the in-memory update: the body's role is assigned too
UpdateAssign_withRole(user, body) ==
    [name |-> IF Truthy(body.name) THEN trim(body.name) ELSE user.name,
     email |-> IF Truthy(body.email) THEN normalizeEmail(body.email)
               ELSE user.email,
     profileImageUrl |-> IF body.profileImageUrl # Undefined
                         THEN body.profileImageUrl
                         ELSE user.profileImageUrl,
     password |-> IF Truthy(body.password)
                  THEN bcryptHash(body.password) ELSE user.password,
     role |-> IF Truthy(body.role) THEN "admin" ELSE user.role]

\* the document after the handler's assignments to user.name, user.email,
\* user.profileImageUrl and user.password
UpdateAssign(user, body) ==
    [name |-> IF Truthy(body.name) THEN trim(body.name) ELSE user.name,
     email |-> IF Truthy(body.email) THEN normalizeEmail(body.email)
               ELSE user.email,
     profileImageUrl |-> IF body.profileImageUrl # Undefined
                         THEN body.profileImageUrl
                         ELSE user.profileImageUrl,
     password |-> IF Truthy(body.password)
                  THEN bcryptHash(body.password) ELSE user.password,
     role |-> user.role]

\* a mutant of the password check: a short password is accepted
UpdateWeakPassword_never(body) == FALSE

\* if (req.body.password) { if (req.body.password.length < 6) ...
UpdateWeakPassword(body) ==
    Truthy(body.password) /\ Len(body.password) < MinPasswordLength

\* updateUserProfile up to the end of its in-memory assignments
UpdateLoad(id, body, us) ==
    IF id \notin DOMAIN us THEN NotFound
    ELSE IF UpdateWeakPassword(body) THEN WeakPassword
    ELSE Continue

\* the check for another user with the email
UpdateConflict(id, body, doc, us) ==
    IF Truthy(body.email) /\ UserExistsOther(us, id, doc.email)
    THEN DupEmail ELSE Continue

\* the paths of the loaded document that the assignments changed
ModifiedPaths(loaded, doc) ==
    {p \in {"name", "email", "profileImageUrl", "password", "role"} :
        doc[p] # loaded[p]}

\* user.save(): the modified paths are written to the stored document
SavedDoc(stored, doc, modified) ==
    [p \in {"name", "email", "profileImageUrl", "password", "role"} |->
        IF p \in modified THEN doc[p] ELSE stored[p]]

\* updateUserProfile from user.save() on, with its catch block
UpdateSave(id, doc, modified, us) ==
    IF "email" \in modified /\ UniqueIndexRejects(us, id, doc.email)
    THEN Result(us, DupEmail)
    ELSE LET saved == [us EXCEPT ![id] = SavedDoc(us[id], doc, modified)]
         IN  IF generateTokenThrows THEN Result(saved, ServerError)
             ELSE Result(saved, Ok)

updateUserProfile(id, body, us) ==
    LET l == UpdateLoad(id, body, us)
    IN  IF l # Continue THEN Result(us, l)
        ELSE LET doc == UpdateAssign(us[id], body)
                 c == UpdateConflict(id, body, doc, us)
             IN  IF c # Continue THEN Result(us, c)
                 ELSE UpdateSave(id, doc, ModifiedPaths(us[id], doc), us)

----------------------------------------------------------------------------
(* The server with each request served as one step *)

Served(op, id, body, resp) ==
    [op |-> op, id |-> id, body |-> body, resp |-> resp]

Idle ==
    [pc |-> "idle", id |-> 0, body |-> NoBody, loaded |-> NoBody, doc |-> NoBody]

NoRequest == Served("none", 0, NoBody, Continue)

Init ==
    /\ users = <<>>
    /\ (jwtSecretSet = TRUE \/ jwtSecretSet = FALSE)
    /\ (adminInviteSecret = TOKEN_SECRET \/ adminInviteSecret = Undefined)
    /\ last = NoRequest
    /\ inflight = [s \in 1..MaxInflight |-> Idle]
    /\ tasks = <<>>

Register ==
    /\ last = NoRequest
    /\ \E body \in RegisterBodies :
         \E r \in {registerUser(body, users)} :
            /\ Len(r.users) <= MaxUsers
            /\ users' = r.users
            /\ last' = Served("register", 0, body, r.resp)
    /\ UNCHANGED <<jwtSecretSet, adminInviteSecret, inflight, tasks>>

Login ==
    /\ last = NoRequest
    /\ \E body \in LoginBodies :
         \E r \in {loginUser(body, users)} :
            /\ users' = r.users
            /\ last' = Served("login", 0, body, r.resp)
    /\ UNCHANGED <<jwtSecretSet, adminInviteSecret, inflight, tasks>>

GetProfile ==
    /\ last = NoRequest
    /\ \E id \in UserIds :
         \E r \in {getUserProfile(id, users)} :
            /\ users' = r.users
            /\ last' = Served("getProfile", id, NoBody, r.resp)
    /\ UNCHANGED <<jwtSecretSet, adminInviteSecret, inflight, tasks>>

UpdateProfile ==
    /\ last = NoRequest
    /\ \E id \in UserIds, body \in UpdateBodies :
         \E r \in {updateUserProfile(id, body, users)} :
            /\ users' = r.users
            /\ last' = Served("updateProfile", id, body, r.resp)
    /\ UNCHANGED <<jwtSecretSet, adminInviteSecret, inflight, tasks>>

\* res.json(...) returns: the request is over and the next one is served
Respond ==
    /\ last # NoRequest
    /\ last' = NoRequest
    /\ UNCHANGED <<users, jwtSecretSet, adminInviteSecret, inflight, tasks>>

Next == Register \/ Login \/ GetProfile \/ UpdateProfile \/ Respond

Spec == Init /\ [][Next]_vars

----------------------------------------------------------------------------
(* The server with requests served in parallel: a handler is suspended at *)
(* each awaited store call, and other requests run in between            *)

ParRegisterBodies ==
    [name : {NAME_N}, email : {EMAIL_A, EMAIL_A_UPPER, EMAIL_C},
     password : {PW_P}, profileImageUrl : {Undefined},
     adminInviteToken : {Undefined}, role : {Undefined}]

ParUpdateBodies ==
    [name : {Undefined}, email : {EMAIL_A_UPPER, EMAIL_C, EMAIL_NO_AT},
     password : {Undefined}, profileImageUrl : {Undefined},
     adminInviteToken : {Undefined}, role : {Undefined}]

Slots == 1..MaxInflight

Suspended(pc, id, body, loaded, doc) ==
    [pc |-> pc, id |-> id, body |-> body, loaded |-> loaded, doc |-> doc]

\* the register requests suspended between User.exists and User.create
PendingCreates == {s \in Slots : inflight[s].pc = "create"}

InitPar ==
    /\ users = <<>>
    /\ jwtSecretSet = TRUE
    /\ adminInviteSecret = TOKEN_SECRET
    /\ last = NoRequest
    /\ inflight = [s \in Slots |-> Idle]
    /\ tasks = <<>>

\* registerUser up to `await User.exists`
ParRegisterCheck ==
    \E s \in Slots, body \in ParRegisterBodies :
        /\ last = NoRequest
        /\ inflight[s].pc = "idle"
        /\ Len(users) + Cardinality(PendingCreates) < MaxUsers
        /\ \E c \in {RegisterCheck(body, users)} :
              IF c # Continue
              THEN /\ last' = Served("register", 0, body, c)
                   /\ UNCHANGED inflight
              ELSE /\ inflight' = [inflight EXCEPT
                                     ![s] = Suspended("create", 0, body, NoBody, NoBody)]
                   /\ UNCHANGED last
        /\ UNCHANGED <<users, jwtSecretSet, adminInviteSecret, tasks>>

\* registerUser from `await User.create` to its response
ParRegisterCreate ==
    \E s \in Slots :
        /\ last = NoRequest
        /\ inflight[s].pc = "create"
        /\ \E r \in {RegisterCreate(inflight[s].body, users)} :
              /\ users' = r.users
              /\ last' = Served("register", 0, inflight[s].body, r.resp)
        /\ inflight' = [inflight EXCEPT ![s] = Idle]
        /\ UNCHANGED <<jwtSecretSet, adminInviteSecret, tasks>>

\* updateUserProfile from `await User.findById` through its assignments
ParUpdateLoad ==
    \E s \in Slots, id \in UserIds, body \in ParUpdateBodies :
        /\ last = NoRequest
        /\ inflight[s].pc = "idle"
        /\ \E l \in {UpdateLoad(id, body, users)} :
              IF l # Continue
              THEN /\ last' = Served("updateProfile", id, body, l)
                   /\ UNCHANGED inflight
              ELSE /\ inflight' = [inflight EXCEPT
                                     ![s] = Suspended("conflict", id, body, users[id],
                                                      UpdateAssign(users[id], body))]
                   /\ UNCHANGED last
        /\ UNCHANGED <<users, jwtSecretSet, adminInviteSecret, tasks>>

\* updateUserProfile at `await User.exists` for a conflicting email
ParUpdateConflict ==
    \E s \in Slots :
        /\ last = NoRequest
        /\ inflight[s].pc = "conflict"
        /\ \E c \in {UpdateConflict(inflight[s].id, inflight[s].body,
                                   inflight[s].doc, users)} :
              IF c # Continue
              THEN /\ last' = Served("updateProfile", inflight[s].id,
                                     inflight[s].body, c)
                   /\ inflight' = [inflight EXCEPT ![s] = Idle]
              ELSE /\ inflight' = [inflight EXCEPT ![s].pc = "save"]
                   /\ UNCHANGED last
        /\ UNCHANGED <<users, jwtSecretSet, adminInviteSecret, tasks>>

\* updateUserProfile from `await user.save()` to its response
ParUpdateSave ==
    \E s \in Slots :
        /\ last = NoRequest
        /\ inflight[s].pc = "save"
        /\ \E r \in {UpdateSave(inflight[s].id, inflight[s].doc,
                               ModifiedPaths(inflight[s].loaded, inflight[s].doc),
                               users)} :
              /\ users' = r.users
              /\ last' = Served("updateProfile", inflight[s].id,
                                inflight[s].body, r.resp)
        /\ inflight' = [inflight EXCEPT ![s] = Idle]
        /\ UNCHANGED <<jwtSecretSet, adminInviteSecret, tasks>>

NextPar ==
    \/ ParRegisterCheck \/ ParRegisterCreate
    \/ ParUpdateLoad \/ ParUpdateConflict \/ ParUpdateSave
    \/ Respond

SpecPar == InitPar /\ [][NextPar]_vars

----------------------------------------------------------------------------
(* The task lifecycle engine (the task controller is not among the        *)
(* sources: these definitions follow the specification's section 4.2)     *)

Statuses == {"pending", "in_progress", "completed"}

Item(done) == [text |-> "x", done |-> done]

\* the checklists of at most MaxItems items
Checklists ==
    UNION {[1..n -> {Item(TRUE), Item(FALSE)}] : n \in 0..MaxItems}

\* the checklists a task is created with: no item is done yet
NewChecklists == {c \in Checklists : \A i \in DOMAIN c : ~c[i].done}

DoneCount(items) == Cardinality({i \in DOMAIN items : items[i].done})

\* Math.round(100 * done / total) for done <= total, total > 0
RoundPercent(done, total) == (200 * done + total) \div (2 * total)

\* progress of a checklist: the rounded percentage of done items, 0 if none
ComputeProgress(items) ==
    IF Len(items) = 0 THEN 0 ELSE RoundPercent(DoneCount(items), Len(items))

AllDone(items) == [i \in DOMAIN items |-> [items[i] EXCEPT !.done = TRUE]]

IsAdmin(actor) == users[actor].role = "admin"

IsAssignee(actor, task) == actor \in task.assignees

Forbidden       == Resp(403, "FORBIDDEN", "")
InvalidAssignee == Resp(400, "INVALID_ASSIGNEE", "")
TaskNotFound    == Resp(404, "NOT_FOUND", "")

TaskResult(ts, resp) == [tasks |-> ts, resp |-> resp]

TITLE_1 == <<"t">>
TITLE_2 == <<"u">>

\* createTask(actor, fields)
createTask(actor, fields, ts) ==
    IF ~IsAdmin(actor) THEN TaskResult(ts, Forbidden)
    ELSE IF fields.assignees = {} \/ ~(fields.assignees \subseteq DOMAIN users)
    THEN TaskResult(ts, InvalidAssignee)
    ELSE TaskResult(Append(ts, [title     |-> fields.title,
                                assignees |-> fields.assignees,
                                checklist |-> fields.checklist,
                                status    |-> "pending",
                                progress  |-> 0]),
                    Created)

\* updateTask(actor, taskId, fields): the supplied fields are written
updateTask(actor, id, fields, ts) ==
    IF id \notin DOMAIN ts THEN TaskResult(ts, TaskNotFound)
    ELSE IF ~IsAdmin(actor) /\ ~IsAssignee(actor, ts[id])
    THEN TaskResult(ts, Forbidden)
    ELSE IF ~IsAdmin(actor) /\ "title" \in fields.given
            /\ fields.title # ts[id].title
    THEN TaskResult(ts, Forbidden)
    ELSE TaskResult(
            [ts EXCEPT ![id] =
                [title     |-> IF "title" \in fields.given
                               THEN fields.title ELSE @.title,
                 assignees |-> @.assignees,
                 checklist |-> IF "checklist" \in fields.given
                               THEN fields.checklist ELSE @.checklist,
                 status    |-> IF "status" \in fields.given
                               THEN fields.status ELSE @.status,
                 progress  |-> @.progress]],
            Ok)

\* updateStatus(actor, taskId, newStatus)
updateStatus(actor, id, newStatus, ts) ==
    IF id \notin DOMAIN ts THEN TaskResult(ts, TaskNotFound)
    ELSE IF ~IsAdmin(actor) /\ ~IsAssignee(actor, ts[id])
    THEN TaskResult(ts, Forbidden)
    ELSE IF newStatus = "completed"
    THEN TaskResult([ts EXCEPT ![id].status = "completed",
                               ![id].checklist = AllDone(@),
                               ![id].progress = 100],
                    Ok)
    ELSE IF ts[id].status = "completed"
    THEN TaskResult([ts EXCEPT ![id].status = newStatus,
                               ![id].progress = ComputeProgress(ts[id].checklist)],
                    Ok)
    ELSE TaskResult([ts EXCEPT ![id].status = newStatus], Ok)

\* updateChecklist(actor, taskId, items)
updateChecklist(actor, id, items, ts) ==
    IF id \notin DOMAIN ts THEN TaskResult(ts, TaskNotFound)
    ELSE IF ~IsAdmin(actor) /\ ~IsAssignee(actor, ts[id])
    THEN TaskResult(ts, Forbidden)
    ELSE TaskResult([ts EXCEPT ![id].checklist = items,
                               ![id].progress = ComputeProgress(items),
                               ![id].status =
                                   IF ComputeProgress(items) = 100
                                   THEN "completed" ELSE "in_progress"],
                    Ok)

\* an admin and a member, as registerUser stores them
TaskUsers ==
    << [name |-> <<"n">>, email |-> EMAIL_A, password |-> bcryptHash(PW_P),
        profileImageUrl |-> <<>>, role |-> "admin"],
       [name |-> <<"n">>, email |-> EMAIL_C, password |-> bcryptHash(PW_P),
        profileImageUrl |-> <<>>, role |-> "member"] >>

TaskIds == 1..MaxTasks

CreateFields ==
    [title : {TITLE_1}, assignees : SUBSET (DOMAIN TaskUsers),
     checklist : NewChecklists]

\* `given` names the fields the request carries; the others are not read
UpdateFields ==
    {f \in [given : SUBSET {"title", "status", "checklist"},
            title : {TITLE_2}, status : Statuses, checklist : Checklists] :
        /\ "status" \notin f.given => f.status = "pending"
        /\ "checklist" \notin f.given => f.checklist = <<>>}

InitTask ==
    /\ users = TaskUsers
    /\ jwtSecretSet = TRUE
    /\ adminInviteSecret = TOKEN_SECRET
    /\ last = NoRequest
    /\ inflight = [s \in Slots |-> Idle]
    /\ tasks = <<>>

CreateTask ==
    /\ last = NoRequest
    /\ \E actor \in DOMAIN users, fields \in CreateFields :
         \E r \in {createTask(actor, fields, tasks)} :
            /\ Len(r.tasks) <= MaxTasks
            /\ tasks' = r.tasks
            /\ last' = Served("createTask", actor, NoBody, r.resp)
    /\ UNCHANGED <<users, jwtSecretSet, adminInviteSecret, inflight>>

UpdateStatus ==
    /\ last = NoRequest
    /\ \E actor \in DOMAIN users, id \in TaskIds, newStatus \in Statuses :
         \E r \in {updateStatus(actor, id, newStatus, tasks)} :
            /\ tasks' = r.tasks
            /\ last' = Served("updateStatus", actor, NoBody, r.resp)
    /\ UNCHANGED <<users, jwtSecretSet, adminInviteSecret, inflight>>

UpdateChecklist ==
    /\ last = NoRequest
    /\ \E actor \in DOMAIN users, id \in TaskIds, items \in Checklists :
         \E r \in {updateChecklist(actor, id, items, tasks)} :
            /\ tasks' = r.tasks
            /\ last' = Served("updateChecklist", actor, NoBody, r.resp)
    /\ UNCHANGED <<users, jwtSecretSet, adminInviteSecret, inflight>>

UpdateTask ==
    /\ last = NoRequest
    /\ \E actor \in DOMAIN users, id \in TaskIds, fields \in UpdateFields :
         \E r \in {updateTask(actor, id, fields, tasks)} :
            /\ tasks' = r.tasks
            /\ last' = Served("updateTask", actor, NoBody, r.resp)
    /\ UNCHANGED <<users, jwtSecretSet, adminInviteSecret, inflight>>

NextTask ==
    CreateTask \/ UpdateStatus \/ UpdateChecklist \/ UpdateTask \/ Respond

SpecTask == InitTask /\ [][NextTask]_vars

----------------------------------------------------------------------------
(* Properties of the auth controller, each request served as one step *)

\* x with its letter case and surrounding white space ignored
IgnoringCaseAndSpace(x) == toLowerCase(trim(x))

PassesFieldValidation(body) == RegValidate(RegFields(body)) = Continue

\* the step serves a register request that creates a user
CreatesUser == Len(users') = Len(users) + 1

\* the email of the request is, ignoring case and surrounding white space,
\* the email of a user stored when the request arrives
EmailAlreadyStored(body) ==
    /\ body.email # Undefined
    /\ \E i \in DOMAIN users :
          IgnoringCaseAndSpace(users[i].email) = IgnoringCaseAndSpace(body.email)

C2_DuplicateAlways409 ==
    [][(/\ last'.op = "register"
        /\ PassesFieldValidation(last'.body)
        /\ EmailAlreadyStored(last'.body))
        => (last'.resp = DupEmail /\ users' = users)]_vars

\* C2 as amended: such a request never creates a user; it is answered
\* 403 BAD_INVITE when it carries a non-empty invite token that differs from
\* the configured secret, and 409 DUP_EMAIL otherwise.
C2_DuplicateNeverCreates ==
    [][(/\ last'.op = "register"
        /\ PassesFieldValidation(last'.body)
        /\ EmailAlreadyStored(last'.body))
        => /\ users' = users
           /\ last'.resp =
                IF /\ Truthy(last'.body.adminInviteToken)
                   /\ last'.body.adminInviteToken # adminInviteSecret
                THEN BadInvite ELSE DupEmail]_vars

\* a register request for " A@b.c " was refused because a@b.c is stored
C2_Witness ==
    /\ last.op = "register"
    /\ last.body.email = EMAIL_A_UPPER
    /\ last.resp = DupEmail
    /\ \E i \in DOMAIN users : users[i].email = EMAIL_A

\* C3: with register and updateProfile requests served in parallel, each
\* suspended between its existence check and its write, no two stored users
\* have the same email once case and surrounding white space are ignored.
C3_EmailsUniqueUnderInterleaving ==
    \A i, j \in DOMAIN users :
        i # j => IgnoringCaseAndSpace(users[i].email)
                   # IgnoringCaseAndSpace(users[j].email)

\* a register request and an updateProfile request have both passed their
\* existence checks for one email and are suspended before their writes,
\* while a third request has stored that email
C3_Witness ==
    \E s, t \in Slots :
        /\ inflight[s].pc = "create"
        /\ inflight[t].pc = "save"
        /\ inflight[t].doc.email = IgnoringCaseAndSpace(inflight[s].body.email)
        /\ \E i \in DOMAIN users :
              users[i].email = IgnoringCaseAndSpace(inflight[s].body.email)

\* the request's email belongs to no stored user
LoginEmailUnknown(body) ==
    \A i \in DOMAIN users :
        users[i].email # IgnoringCaseAndSpace(body.email)

\* the request's email belongs to a stored user whose password does not match
LoginPasswordWrong(body) ==
    \E i \in DOMAIN users :
        /\ users[i].email = IgnoringCaseAndSpace(body.email)
        /\ ~bcryptCompare(body.password, users[i].password)

\* C4 as stated: a login request with a non-empty email and password is
\* answered with the same 401 BAD_CREDENTIALS "Invalid email or password"
\* response when its email belongs to no stored user and when it belongs to a
\* stored user whose password does not match, and in neither case changes the
\* user store.
C4_NonEmptyLoginFailsAlike ==
    [][(/\ last'.op = "login"
        /\ Truthy(last'.body.email)
        /\ Truthy(last'.body.password)
        /\ (LoginEmailUnknown(last'.body) \/ LoginPasswordWrong(last'.body)))
        => /\ last'.resp = Resp(401, "BAD_CREDENTIALS", "Invalid email or password")
           /\ users' = users]_vars

\* C4 as amended: the same holds of a login request whose email is not blank
\* (is non-empty once surrounding white space is removed) and whose password
\* is non-empty.
C4_LoginFailuresIndistinguishable ==
    [][(/\ last'.op = "login"
        /\ Truthy(last'.body.email)
        /\ IgnoringCaseAndSpace(last'.body.email) # <<>>
        /\ Truthy(last'.body.password)
        /\ (LoginEmailUnknown(last'.body) \/ LoginPasswordWrong(last'.body)))
        => /\ last'.resp = Resp(401, "BAD_CREDENTIALS", "Invalid email or password")
           /\ users' = users]_vars

\* a login with a stored user's email and a wrong password was answered 401
C4_Witness ==
    /\ last.op = "login"
    /\ last.resp.status = 401
    /\ \E i \in DOMAIN users :
          /\ users[i].email = IgnoringCaseAndSpace(last.body.email)
          /\ ~bcryptCompare(last.body.password, users[i].password)

\* the request's email is held by a stored user other than the requester
EmailHeldByOther(id, body) ==
    /\ body.email # Undefined
    /\ \E i \in DOMAIN users :
          i # id /\ users[i].email = IgnoringCaseAndSpace(body.email)

\* C5 as stated: an updateProfile request of a stored user whose password
\* field is shorter than 6 characters is answered 400 WEAK_PASSWORD, one whose
\* email is held by a different user is answered 409 DUP_EMAIL, and in both
\* cases the stored users are unchanged.
C5_ShortPasswordOrTakenEmailFails ==
    [][(last'.op = "updateProfile" /\ last'.id \in DOMAIN users) =>
        LET body == last'.body
        IN  /\ (body.password # Undefined
                  /\ Len(body.password) < MinPasswordLength)
                => (last'.resp = WeakPassword /\ users' = users)
            /\ EmailHeldByOther(last'.id, body)
                => (last'.resp = DupEmail /\ users' = users)]_vars

\* C5 as amended: an updateProfile request of a stored user whose password
\* field is non-empty and shorter than 6 characters is answered
\* 400 WEAK_PASSWORD; one whose email is held by a different user, and whose
\* password field is not such a short one, is answered 409 DUP_EMAIL; in both
\* cases the stored users are unchanged.
C5_RejectedUpdatePersistsNothing ==
    [][(last'.op = "updateProfile" /\ last'.id \in DOMAIN users) =>
        LET body == last'.body
            short == /\ Truthy(body.password)
                     /\ Len(body.password) < MinPasswordLength
        IN  /\ short => (last'.resp = WeakPassword /\ users' = users)
            /\ (EmailHeldByOther(last'.id, body) /\ ~short)
                => (last'.resp = DupEmail /\ users' = users)]_vars

\* an update carrying a taken email, a new name and a new password was
\* answered 409, and the requester's stored name and password are the old ones
C5_Witness ==
    /\ last.op = "updateProfile"
    /\ last.resp = DupEmail
    /\ last.body.password = PW_Q
    /\ last.body.name = NAME_M
    /\ last.id \in DOMAIN users
    /\ users[last.id].password = bcryptHash(PW_P)
    /\ users[last.id].name = <<"n">>

\* C6: no request changes the role of a stored user, and no user is removed:
\* every stored user keeps the role it was registered with.
C6_RoleFixedAtRegistration ==
    [][\A i \in DOMAIN users :
          i \in DOMAIN users' /\ users'[i].role = users[i].role]_vars

\* a member's update carrying role "admin" and the invite secret succeeded,
\* and the member is still a member
C6_Witness ==
    /\ last.op = "updateProfile"
    /\ last.body.role = ROLE_ADMIN
    /\ last.body.adminInviteToken = TOKEN_SECRET
    /\ last.resp = Ok
    /\ users[last.id].role = "member"

\* C9: a register or updateProfile request answered with an error status
\* leaves the stored users as they were.
C9_ErrorLeavesStoreUnchanged ==
    [][(last'.op \in {"register", "updateProfile"} /\ last'.resp.status >= 400)
        => users' = users]_vars

\* C10: every stored user has a non-empty trimmed name and an email that is
\* trimmed, lower-cased and of the registration email format.
C10_StoredUsersValid ==
    \A i \in DOMAIN users :
        /\ users[i].name # <<>>
        /\ trim(users[i].name) = users[i].name
        /\ IgnoringCaseAndSpace(users[i].email) = users[i].email
        /\ EmailRegexTest(users[i].email)

----------------------------------------------------------------------------
(* Properties of the task lifecycle engine *)

\* C7: the progress of every task is the rounded percentage of its done
\* checklist items, and 0 when it has no checklist items.
C7_ProgressMatchesChecklist ==
    \A t \in DOMAIN tasks :
        tasks[t].progress =
            IF Len(tasks[t].checklist) = 0 THEN 0
            ELSE RoundPercent(DoneCount(tasks[t].checklist),
                              Len(tasks[t].checklist))

\* C8: every task whose status is completed has progress 100 and all of its
\* checklist items done.
C8_CompletedMeansAllDone ==
    \A t \in DOMAIN tasks :
        tasks[t].status = "completed" =>
            /\ tasks[t].progress = 100
            /\ \A i \in DOMAIN tasks[t].checklist : tasks[t].checklist[i].done

====
